---- MODULE Spec2Model ----
(***************************************************************************)
(* Model of the seven capability factories of core/ (message_broker,      *)
(* api_gateway, logging, security, microservice, database, cache) and of  *)
(* the abstract base classes they return.                                 *)
(*                                                                         *)
(* A type name is a sequence of one-character strings, so that            *)
(* str.capitalize() is modelled character by character.  A module name    *)
(* and a class name are sequences of string pieces, built the way the     *)
(* f-strings of the factories build them.                                 *)
(***************************************************************************)
EXTENDS Integers, Sequences, FiniteSets, TLC

\* ------------------------------------------------------------------ bounds
MaxRegs == 1
MaxCalls == 2
MaxOrderRegs == 2
NumThreads == 2

\* ------------------------------------------------------------------ inputs
TypeNames == { <<"a", "B">>, <<"b">> }
Urls == { "u", "none" }
Hosts == { "h", "none" }
Ports == { "80" }
Domains ==
  { "broker", "gateway", "logger", "security", "microservice", "database", "cache" }

Range(s) == { s[i] : i \in DOMAIN s }

\* ------------------------------------------------------- str.capitalize()
Upper(c) ==
  CASE c = "a" -> "A" [] c = "b" -> "B" [] OTHER -> c

Lower(c) ==
  CASE c = "A" -> "a" [] c = "B" -> "b" [] OTHER -> c

CapitalizeKeepRest(s) ==
  [i \in DOMAIN s |-> IF i = 1 THEN Upper(s[i]) ELSE s[i]]

Capitalize(s) ==
  [i \in DOMAIN s |-> IF i = 1 THEN Upper(s[i]) ELSE Lower(s[i])]

\* ------------------------------------------------- abstract base classes
MessageBroker == { "publish", "subscribe", "start", "stop" }

ApiGateway == { "add_service", "add_route" }

Logger == { "setup" }

Security == { "start" }

Microservice == { "create_app" }

Database == { "get_session" }

Cache == { "get_client" }

AbstractMethods(base) ==
  CASE base = "MessageBroker" -> MessageBroker
    [] base = "ApiGateway" -> ApiGateway
    [] base = "Logger" -> Logger
    [] base = "Security" -> Security
    [] base = "Microservice" -> Microservice
    [] base = "Database" -> Database
    [] base = "Cache" -> Cache
    [] OTHER -> {}

\* The interface each factory is annotated to return.
ReturnType(d) ==
  CASE d = "broker" -> "MessageBroker"
    [] d = "gateway" -> "ApiGateway"
    [] d = "logger" -> "Logger"
    [] d = "security" -> "Security"
    [] d = "microservice" -> "Microservice"
    [] d = "database" -> "Database"
    [] d = "cache" -> "Cache"

\* ------------------------------------------------------- the factories
\* What each factory computes before and inside its try block: the module
\* it imports, the class it looks up, the arguments it passes to the class
\* and the message of the ValueError it raises.
create_message_broker(broker_type, broker_url) ==
  [ module_name |-> <<"implementations.">> \o broker_type \o <<"_broker">>,
    class_name |-> Capitalize(broker_type) \o <<"Broker">>,
    ctor_args |-> <<broker_url>>,
    message |-> <<"Unsupported broker type: ">> \o broker_type ]

create_api_gateway(gateway_type, admin_url) ==
  [ module_name |-> <<"implementations.">> \o gateway_type \o <<"_gateway">>,
    class_name |-> Capitalize(gateway_type) \o <<"Gateway">>,
    ctor_args |-> <<admin_url>>,
    message |-> <<"Unsupported gateway type: ">> \o gateway_type ]

create_logger_swapped(logger_type, host, port) ==
  [ module_name |-> <<"implementations.">> \o logger_type \o <<"_logger">>,
    class_name |-> Capitalize(logger_type) \o <<"Logger">>,
    ctor_args |-> <<port, host>>,
    message |-> <<"Unsupported logger type: ">> \o logger_type ]

create_logger(logger_type, host, port) ==
  [ module_name |-> <<"implementations.">> \o logger_type \o <<"_logger">>,
    class_name |-> Capitalize(logger_type) \o <<"Logger">>,
    ctor_args |-> <<host, port>>,
    message |-> <<"Unsupported logger type: ">> \o logger_type ]

create_security(security_type, port) ==
  [ module_name |-> <<"implementations.">> \o security_type \o <<"_security">>,
    class_name |-> Capitalize(security_type) \o <<"Security">>,
    ctor_args |-> <<port>>,
    message |-> <<"Unsupported security type: ">> \o security_type ]

create_microservice(service_type) ==
  [ module_name |-> <<"implementations.">> \o service_type \o <<"_service">>,
    class_name |-> Capitalize(service_type) \o <<"Service">>,
    ctor_args |-> <<>>,
    message |-> <<"Unsupported service type: ">> \o service_type ]

create_database_as_cache(database_type, db_url) ==
  [ module_name |-> <<"implementations.">> \o database_type \o <<"_cache">>,
    class_name |-> Capitalize(database_type) \o <<"Cache">>,
    ctor_args |-> <<db_url>>,
    message |-> <<"Unsupported database type: ">> \o database_type ]

create_database(database_type, db_url) ==
  [ module_name |-> <<"implementations.">> \o database_type \o <<"_database">>,
    class_name |-> Capitalize(database_type) \o <<"Database">>,
    ctor_args |-> <<db_url>>,
    message |-> <<"Unsupported database type: ">> \o database_type ]

create_cache(cache_type, cache_url) ==
  [ module_name |-> <<"implementations.">> \o cache_type \o <<"_cache">>,
    class_name |-> Capitalize(cache_type) \o <<"Cache">>,
    ctor_args |-> <<cache_url>>,
    message |-> <<"Unsupported cache type: ">> \o cache_type ]

\* The names core/__init__.py exports, by domain; a is the tuple of the
\* arguments that follow the type name.
Factory(d, t, a) ==
  CASE d = "broker" -> create_message_broker(t, a[1])
    [] d = "gateway" -> create_api_gateway(t, a[1])
    [] d = "logger" -> create_logger(t, a[1], a[2])
    [] d = "security" -> create_security(t, a[1])
    [] d = "microservice" -> create_microservice(t)
    [] d = "database" -> create_database(t, a[1])
    [] d = "cache" -> create_cache(t, a[1])

\* The argument tuples a caller may pass after the type name.
CallArgs(d) ==
  CASE d \in { "broker", "gateway", "database", "cache" } -> { <<u>> : u \in Urls }
    [] d = "logger" -> { <<h, p>> : h \in Hosts, p \in Ports }
    [] d = "security" -> { <<p>> : p \in Ports }
    [] d = "microservice" -> { <<>> }

\* ------------------------------------------------ implementation classes
\* The classes an implementations.* module may define.  A class derives
\* from the domain's abstract base or from object, defines some of the
\* interface's methods, and has an __init__ that may raise.
ImplKinds == { "ok", "duck", "abstract", "attr_on_none", "import_always" }

Missing(d) == { CHOOSE o \in AbstractMethods(ReturnType(d)) : TRUE }

ImplClass(k, d, t) ==
  [ owner |-> <<d, t>>,
    base |-> IF k = "duck" THEN "object" ELSE ReturnType(d),
    ops |-> IF k \in { "duck", "abstract" }
              THEN AbstractMethods(ReturnType(d)) \ Missing(d)
              ELSE AbstractMethods(ReturnType(d)),
    init |-> IF k \in { "attr_on_none", "import_always" } THEN k ELSE "ok" ]

\* Calling a class: ABCMeta refuses a class with an abstract method left
\* unimplemented (TypeError) before __init__ runs; otherwise __init__ runs.
\* The value is the name of the exception raised, or "none".
Instantiate(cls, args) ==
  IF AbstractMethods(cls.base) \ cls.ops # {} THEN "TypeError"
  ELSE IF cls.init = "attr_on_none" /\ "none" \in Range(args) THEN "AttributeError"
  ELSE IF cls.init = "import_always" THEN "ImportError"
  ELSE "none"

AllocateShared(heap) == 1

\* The identity of a newly built object: one no earlier object has.
Allocate(heap) == heap + 1

\* -------------------------------------------------- the try/except block
\* importlib.import_module(module_name): the module, or ImportError.
ImportModule(mods, module_name) ==
  IF module_name \in DOMAIN mods
    THEN [ exc |-> "none", value |-> mods[module_name] ]
    ELSE [ exc |-> "ImportError", value |-> <<>> ]

\* getattr(module, class_name): the class, or AttributeError.
GetAttr(module, class_name) ==
  IF class_name \in DOMAIN module
    THEN [ exc |-> "none", value |-> module[class_name] ]
    ELSE [ exc |-> "AttributeError", value |-> <<>> ]

CaughtImportOnly == { "ImportError" }

\* except (ImportError, AttributeError)
Caught == { "ImportError", "AttributeError" }

ErrorOfClassName(plan, exc, at) ==
  IF exc \in Caught
    THEN [ kind |-> "error", exc |-> "ValueError",
           message |-> <<"Unsupported ">> \o plan.class_name,
           cause |-> exc, at |-> at ]
    ELSE [ kind |-> "error", exc |-> exc, message |-> <<>>, cause |-> "none", at |-> at ]

\* What the caller sees when exc is raised inside the try block at step
\* `at`: ValueError(message) from exc when the except clause catches it,
\* exc itself otherwise.
ErrorOf(plan, exc, at) ==
  IF exc \in Caught
    THEN [ kind |-> "error", exc |-> "ValueError", message |-> plan.message,
           cause |-> exc, at |-> at ]
    ELSE [ kind |-> "error", exc |-> exc, message |-> <<>>, cause |-> "none", at |-> at ]

InstanceOf(cls, args, id) ==
  [ kind |-> "instance", id |-> id, cls |-> cls, init_args |-> args ]

\* One whole call of a factory: import, getattr, construct, return.
TryCreate(mods, heap, plan) ==
  LET m == ImportModule(mods, plan.module_name) IN
    IF m.exc # "none" THEN ErrorOf(plan, m.exc, "import")
    ELSE LET c == GetAttr(m.value, plan.class_name) IN
      IF c.exc # "none" THEN ErrorOf(plan, c.exc, "getattr")
      ELSE LET e == Instantiate(c.value, plan.ctor_args) IN
        IF e # "none" THEN ErrorOf(plan, e, "construct")
        ELSE InstanceOf(c.value, plan.ctor_args, Allocate(heap))

\* ------------------------------------------------------------ registry
\* The implementations package: module name -> (class name -> class).
\* Registering (d, t) puts a module under the name the factory of d
\* derives from t; kind "noclass" is a module without the derived class.
RegKinds == ImplKinds \cup { "noclass" }

SomeArgs(d) == CHOOSE a \in CallArgs(d) : TRUE

Install(mods, d, t, k) ==
  LET plan == Factory(d, t, SomeArgs(d))
      body == IF k = "noclass" THEN <<>>
              ELSE [ c \in { plan.class_name } |-> ImplClass(k, d, t) ]
  IN  [ n \in DOMAIN mods \cup { plan.module_name } |->
          IF n = plan.module_name THEN body ELSE mods[n] ]

RECURSIVE InstallSeq(_, _)
InstallSeq(mods, rs) ==
  IF rs = <<>> THEN mods
  ELSE InstallSeq(Install(mods, rs[1].domain, rs[1].type_name, rs[1].impl), Tail(rs))

Key(r) == <<r.domain, r.type_name>>

\* ---------------------------------------------------------------- state
VARIABLES
  modules,   \* the importable implementations.* modules
  regs,      \* the registrations made so far (history)
  heap,      \* number of objects built so far
  last,      \* the latest factory call and what it gave the caller
  nCalls,    \* number of factory calls made
  pc,        \* per thread: idle, import, getattr, construct, except, done
  frame,     \* per thread: arguments and local variables of its call
  result     \* per thread: what its call gave the caller

vars == <<modules, regs, heap, last, nCalls, pc, frame, result>>

Threads == 1 .. NumThreads

NoCall == [ domain |-> "none" ]

NoPlan == [ module_name |-> <<>>, class_name |-> <<>>, ctor_args |-> <<>>, message |-> <<>> ]

NoFrame ==
  [ domain |-> "none", type_name |-> <<>>, args |-> <<>>, plan |-> NoPlan,
    module |-> <<>>, cls |-> <<>>, exc |-> "none", at |-> "none" ]

Init ==
  /\ modules = <<>>
  /\ regs = {}
  /\ heap = 0
  /\ last = NoCall
  /\ nCalls = 0
  /\ pc = [ th \in Threads |-> "idle" ]
  /\ frame = [ th \in Threads |-> NoFrame ]
  /\ result = [ th \in Threads |-> NoCall ]

\* A module is added to the implementations package, before any call.
Register(limit, d, t, k) ==
  /\ nCalls = 0
  /\ Cardinality(regs) < limit
  /\ \A r \in regs : Key(r) # <<d, t>>
  /\ modules' = Install(modules, d, t, k)
  /\ regs' = regs \cup { [ domain |-> d, type_name |-> t, impl |-> k ] }
  /\ UNCHANGED <<heap, last, nCalls, pc, frame, result>>

\* A caller calls the factory of domain d; the call runs to its end.
Invoke(limit, d, t, a, plan) ==
  /\ nCalls < limit
  /\ LET out == TryCreate(modules, heap, plan) IN
       /\ last' = [ domain |-> d, type_name |-> t, args |-> a,
                    plan |-> plan, outcome |-> out ]
       /\ heap' = IF out.kind = "instance" THEN heap + 1 ELSE heap
  /\ nCalls' = nCalls + 1
  /\ UNCHANGED <<modules, regs, pc, frame, result>>

CreateMessageBroker ==
  \E t \in TypeNames, u \in Urls :
    Invoke(MaxCalls, "broker", t, <<u>>, create_message_broker(t, u))

CreateApiGateway ==
  \E t \in TypeNames, u \in Urls :
    Invoke(MaxCalls, "gateway", t, <<u>>, create_api_gateway(t, u))

CreateLogger ==
  \E t \in TypeNames, h \in Hosts, p \in Ports :
    Invoke(MaxCalls, "logger", t, <<h, p>>, create_logger(t, h, p))

CreateSecurity ==
  \E t \in TypeNames, p \in Ports :
    Invoke(MaxCalls, "security", t, <<p>>, create_security(t, p))

CreateMicroservice ==
  \E t \in TypeNames :
    Invoke(MaxCalls, "microservice", t, <<>>, create_microservice(t))

CreateDatabase ==
  \E t \in TypeNames, u \in Urls :
    Invoke(MaxCalls, "database", t, <<u>>, create_database(t, u))

CreateCache ==
  \E t \in TypeNames, u \in Urls :
    Invoke(MaxCalls, "cache", t, <<u>>, create_cache(t, u))

RegisterAny ==
  \E d \in Domains, t \in TypeNames, k \in RegKinds : Register(MaxRegs, d, t, k)

Next ==
  \/ RegisterAny
  \/ CreateMessageBroker
  \/ CreateApiGateway
  \/ CreateLogger
  \/ CreateSecurity
  \/ CreateMicroservice
  \/ CreateDatabase
  \/ CreateCache

Spec == Init /\ [][Next]_vars

\* ------------------------------------- registration order (second model)
\* Up to MaxOrderRegs modules are added, in any order, then one call runs.
OrderKinds == { "ok", "attr_on_none", "noclass" }

RegisterInOrder ==
  \E d \in Domains, t \in TypeNames, k \in OrderKinds : Register(MaxOrderRegs, d, t, k)

ResolveAfterRegistration ==
  \E d \in Domains, t \in TypeNames :
    \E a \in CallArgs(d) : Invoke(1, d, t, a, Factory(d, t, a))

NextReg ==
  \/ RegisterInOrder
  \/ ResolveAfterRegistration

SpecReg == Init /\ [][NextReg]_vars

\* ------------------------------------------ concurrent calls (third model)
\* The package is filled before the threads start; each thread makes one
\* call, one statement of the factory at a time.
RECURSIVE InstallSet(_, _)
InstallSet(mods, rs) ==
  IF rs = {} THEN mods
  ELSE LET r == CHOOSE x \in rs : TRUE
       IN  InstallSet(Install(mods, r.domain, r.type_name, r.impl), rs \ { r })

Package(k) ==
  { [ domain |-> d, type_name |-> <<"b">>, impl |-> k ] : d \in Domains }

InitConc ==
  /\ \E k \in RegKinds :
       /\ regs = Package(k)
       /\ modules = InstallSet(<<>>, Package(k))
  /\ heap = 0
  /\ last = NoCall
  /\ nCalls = 0
  /\ pc = [ th \in Threads |-> "idle" ]
  /\ frame = [ th \in Threads |-> NoFrame ]
  /\ result = [ th \in Threads |-> NoCall ]

\* The arguments the threads pass: the None-like value wherever the
\* factory takes a URL or a host.
ThreadArgs(d) ==
  CASE d \in { "broker", "gateway", "database", "cache" } -> <<"none">>
    [] d = "logger" -> <<"none", "80">>
    [] d = "security" -> <<"80">>
    [] d = "microservice" -> <<>>

LocalShared(frames, th) == frames[1]

\* The local variables of the call thread th is running.
Local(frames, th) == frames[th]

\* The factory is entered: module_name and class_name are computed.
Call(th) ==
  /\ pc[th] = "idle"
  /\ \E d \in Domains, t \in TypeNames :
       frame' = [ frame EXCEPT ![th] =
                    [ NoFrame EXCEPT !.domain = d, !.type_name = t,
                                     !.args = ThreadArgs(d),
                                     !.plan = Factory(d, t, ThreadArgs(d)) ] ]
  /\ pc' = [ pc EXCEPT ![th] = "import" ]
  /\ UNCHANGED <<modules, regs, heap, last, nCalls, result>>

\* module = importlib.import_module(module_name)
ImportStep(th) ==
  /\ pc[th] = "import"
  /\ LET f == Local(frame, th)
         m == ImportModule(modules, f.plan.module_name)
     IN  IF m.exc = "none"
           THEN /\ frame' = [ frame EXCEPT ![th] = [ f EXCEPT !.module = m.value ] ]
                /\ pc' = [ pc EXCEPT ![th] = "getattr" ]
           ELSE /\ frame' = [ frame EXCEPT ![th] =
                                [ f EXCEPT !.exc = m.exc, !.at = "import" ] ]
                /\ pc' = [ pc EXCEPT ![th] = "except" ]
  /\ UNCHANGED <<modules, regs, heap, last, nCalls, result>>

\* database_class = getattr(module, class_name)
GetAttrStep(th) ==
  /\ pc[th] = "getattr"
  /\ LET f == Local(frame, th)
         c == GetAttr(f.module, f.plan.class_name)
     IN  IF c.exc = "none"
           THEN /\ frame' = [ frame EXCEPT ![th] = [ f EXCEPT !.cls = c.value ] ]
                /\ pc' = [ pc EXCEPT ![th] = "construct" ]
           ELSE /\ frame' = [ frame EXCEPT ![th] =
                                [ f EXCEPT !.exc = c.exc, !.at = "getattr" ] ]
                /\ pc' = [ pc EXCEPT ![th] = "except" ]
  /\ UNCHANGED <<modules, regs, heap, last, nCalls, result>>

\* return database_class(db_url)
ConstructStep(th) ==
  /\ pc[th] = "construct"
  /\ LET f == Local(frame, th)
         e == Instantiate(f.cls, f.plan.ctor_args)
     IN  IF e = "none"
           THEN /\ result' = [ result EXCEPT ![th] =
                                 InstanceOf(f.cls, f.plan.ctor_args, Allocate(heap)) ]
                /\ heap' = heap + 1
                /\ pc' = [ pc EXCEPT ![th] = "done" ]
                /\ frame' = frame
           ELSE /\ frame' = [ frame EXCEPT ![th] =
                                [ f EXCEPT !.exc = e, !.at = "construct" ] ]
                /\ pc' = [ pc EXCEPT ![th] = "except" ]
                /\ UNCHANGED <<heap, result>>
  /\ UNCHANGED <<modules, regs, last, nCalls>>

\* except (ImportError, AttributeError) as e: raise ValueError(...) from e;
\* any other exception leaves the factory as it is.
ExceptStep(th) ==
  /\ pc[th] = "except"
  /\ LET f == Local(frame, th)
     IN  result' = [ result EXCEPT ![th] = ErrorOf(f.plan, f.exc, f.at) ]
  /\ pc' = [ pc EXCEPT ![th] = "done" ]
  /\ UNCHANGED <<modules, regs, heap, last, nCalls, frame>>

NextConc ==
  \E th \in Threads :
    \/ Call(th)
    \/ ImportStep(th)
    \/ GetAttrStep(th)
    \/ ConstructStep(th)
    \/ ExceptStep(th)

SpecConc == InitConc /\ [][NextConc]_vars

\* ------------------------------------------------------ claim vocabulary
Called == nCalls > 0

\* (d, t) is registered: a module holds a class for it.
Registered(d, t) ==
  \E r \in regs : Key(r) = <<d, t>> /\ r.impl # "noclass"

ImplOf(d, t) == (CHOOSE r \in regs : Key(r) = <<d, t>>).impl

Unsupported(out) == out.kind = "error" /\ out.exc = "ValueError"

\* The word each factory uses for its domain.
Label(d) == IF d = "microservice" THEN "service" ELSE d

Word(w) ==
  CASE w = "broker" -> "Broker"
    [] w = "gateway" -> "Gateway"
    [] w = "logger" -> "Logger"
    [] w = "security" -> "Security"
    [] w = "microservice" -> "Microservice"
    [] w = "service" -> "Service"
    [] w = "database" -> "Database"
    [] w = "cache" -> "Cache"

Capitalized(t) ==
  CASE t = <<"a", "B">> -> <<"A", "b">>
    [] t = <<"b">> -> <<"B">>

\* C1 (as stated): a call for an unregistered type name raises the
\* unsupported-type error, whose message names the domain itself and the
\* type name as requested.
C1_Original ==
  (Called /\ ~Registered(last.domain, last.type_name)) =>
    /\ Unsupported(last.outcome)
    /\ last.outcome.message =
         <<"Unsupported " \o last.domain \o " type: ">> \o last.type_name

\* C1 (amended): a call for an unregistered type name never returns an
\* instance; it raises the unsupported-type error, whose message holds the
\* factory's word for the domain (the domain's name, "service" for
\* microservice) and the type name exactly as requested.
C1_UnregisteredRaisesUnsupported ==
  (Called /\ ~Registered(last.domain, last.type_name)) =>
    /\ Unsupported(last.outcome)
    /\ last.outcome.message =
         <<"Unsupported " \o Label(last.domain) \o " type: ">> \o last.type_name

C1_Witness ==
  /\ Called
  /\ last.domain = "microservice"
  /\ last.type_name = <<"a", "B">>
  /\ \E r \in regs : Key(r) = <<"microservice", <<"a", "B">>>> /\ r.impl = "noclass"
  /\ Unsupported(last.outcome)

\* C2: an instance returned for a registered type provides every operation
\* of the domain's interface.
C2_InstanceSatisfiesInterface ==
  (Called /\ Registered(last.domain, last.type_name)
     /\ last.outcome.kind = "instance") =>
    AbstractMethods(ReturnType(last.domain)) \subseteq last.outcome.cls.ops

\* C3: an exception raised while the class is being constructed reaches
\* the caller as it is, never as the unsupported-type error.
C3_ConstructionErrorsPropagate ==
  (Called /\ last.outcome.kind = "error" /\ last.outcome.at = "construct") =>
    /\ ~Unsupported(last.outcome)
    /\ last.outcome.exc \in { "TypeError", "AttributeError", "ImportError" }

\* C4: every call that returns an instance has built one new object, and
\* the instance it returns is none that an earlier call returned.
C4_FreshInstancePerCall ==
  [][ (nCalls' = nCalls + 1 /\ last'.outcome.kind = "instance") =>
        /\ heap' = heap + 1
        /\ last'.outcome.id \notin 1 .. heap
        /\ (Called /\ last.outcome.kind = "instance")
             => last'.outcome.id # last.outcome.id ]_vars

C4_Witness ==
  /\ nCalls = 2
  /\ heap = 2
  /\ last.outcome.kind = "instance"
  /\ last.outcome.id = 2

\* C5: a lookup that fails at the import and one that fails at the class
\* lookup raise the same error: ValueError with the same message, which
\* depends on the domain and the type name only.
C5_LookupFailuresNormalized ==
  (Called /\ last.outcome.kind = "error"
     /\ last.outcome.at \in { "import", "getattr" }) =>
    [ exc |-> last.outcome.exc, message |-> last.outcome.message ] =
      [ exc |-> "ValueError",
        message |-> <<"Unsupported " \o Label(last.domain) \o " type: ">>
                      \o last.type_name ]

C5_Witness ==
  /\ Called
  /\ last.outcome.kind = "error"
  /\ last.outcome.at = "getattr"
  /\ last.outcome.cause = "AttributeError"
  /\ last.plan.module_name \in DOMAIN modules

\* C6 (as stated): the module is implementations.<type_name>_<domain> and
\* the class is the capitalized type name followed by the capitalized
\* domain name, in every domain.
C6_Original ==
  Called =>
    /\ last.plan.module_name =
         <<"implementations.">> \o last.type_name \o <<"_" \o last.domain>>
    /\ last.plan.class_name = Capitalized(last.type_name) \o <<Word(last.domain)>>

\* C6 (amended): the identifier is a function of (domain, type_name): the
\* module is implementations.<type_name>_<word> and the class is the
\* capitalized type name (first character upper case, the rest lower
\* case) followed by <Word>, where the word is the domain's name in six
\* domains and "service" for microservice.
C6_DerivedIdentifier ==
  Called =>
    /\ last.plan.module_name =
         <<"implementations.">> \o last.type_name \o <<"_" \o Label(last.domain)>>
    /\ last.plan.class_name =
         Capitalized(last.type_name) \o <<Word(Label(last.domain))>>

C6_Witness ==
  /\ Called
  /\ last.domain = "microservice"
  /\ last.type_name = <<"a", "B">>
  /\ last.plan.class_name = <<"A", "b", "Service">>

\* C7: the class is called with exactly the arguments the caller gave
\* after the type name, in the caller's order; the type name is not among
\* them.
C7_ArgumentsForwarded ==
  Called =>
    /\ last.plan.ctor_args = last.args
    /\ last.outcome.kind = "instance" => last.outcome.init_args = last.args

C7_Witness ==
  /\ Called
  /\ last.domain = "logger"
  /\ last.outcome.kind = "instance"
  /\ last.outcome.init_args = <<"h", "80">>

OutcomeKind(out) ==
  IF out.kind = "instance" THEN "instance"
  ELSE IF Unsupported(out) THEN "unsupported" ELSE "raised"

\* C8: a call leaves the registry as it was, and a call for the same
\* (domain, type_name) as the call before it has the same kind of outcome:
\* not an instance once and the unsupported-type error the other time.
C8_ResolveLeavesRegistry ==
  [][ nCalls' = nCalls + 1 =>
        /\ modules' = modules
        /\ regs' = regs
        /\ (Called /\ last'.domain = last.domain /\ last'.type_name = last.type_name)
             => { OutcomeKind(last.outcome), OutcomeKind(last'.outcome) }
                  # { "instance", "unsupported" } ]_vars

Perms(S) ==
  { p \in [ 1 .. Cardinality(S) -> S ] : \A i, j \in DOMAIN p : i # j => p[i] # p[j] }

\* C9: the package is the same in whichever order the registrations were
\* made; a call for a registered (domain, type_name) that returns an
\* instance returns one of the class registered for that very pair, a pair
\* registered with a working class resolves to an instance, and a pair
\* that is not registered raises the unsupported-type error even when the
\* same type name is registered in another domain.
C9_RegistrationOrderIndependent ==
  /\ \A p \in Perms(regs) : InstallSeq(<<>>, p) = modules
  /\ Called =>
       LET d == last.domain
           t == last.type_name
       IN  /\ ~Registered(d, t) => Unsupported(last.outcome)
           /\ (Registered(d, t) /\ ImplOf(d, t) = "ok")
                => last.outcome.kind = "instance"
           /\ (Registered(d, t) /\ last.outcome.kind = "instance")
                => /\ last.outcome.cls = ImplClass(ImplOf(d, t), d, t)
                   /\ last.outcome.cls.owner = <<d, t>>

C9_Witness ==
  /\ Called
  /\ \E r1, r2 \in regs :
       /\ r1.domain = "cache" /\ r2.domain = "database"
       /\ r1.type_name = r2.type_name
       /\ r1.impl = "ok" /\ r2.impl = "ok"
       /\ last.domain = "database"
       /\ last.type_name = r2.type_name
  /\ last.outcome.kind = "instance"
  /\ last.outcome.cls.owner[1] = "database"

Erase(out) == IF out.kind = "instance" THEN [ out EXCEPT !.id = 0 ] ELSE out

\* C10: under every interleaving, a finished call has the outcome the same
\* call has when it runs alone (up to the identity of the new object): the
\* unsupported-type error for an unregistered type name, an instance of the
\* class registered for its own (domain, type_name) otherwise; and two
\* finished calls never hold the same instance.
C10_ConcurrentCallsIndependent ==
  /\ \A th \in Threads :
       pc[th] = "done" =>
         LET f == frame[th] IN
           /\ Erase(result[th]) = Erase(TryCreate(modules, 0, f.plan))
           /\ ~Registered(f.domain, f.type_name) => Unsupported(result[th])
           /\ result[th].kind = "instance"
                => result[th].cls.owner = <<f.domain, f.type_name>>
  /\ \A t1, t2 \in Threads :
       (t1 # t2 /\ pc[t1] = "done" /\ pc[t2] = "done"
          /\ result[t1].kind = "instance" /\ result[t2].kind = "instance")
         => result[t1].id # result[t2].id

C10_Witness ==
  /\ pc[1] = "done" /\ pc[2] = "done"
  /\ frame[1].domain = "broker" /\ frame[2].domain = "broker"
  /\ frame[1].type_name = <<"b">> /\ frame[2].type_name = <<"a", "B">>
  /\ result[1].kind = "instance"
  /\ Unsupported(result[2])

====
